---- MODULE Spec2Model ----
(***************************************************************************)
(* A model of ksonnet's `prototype` command family (cmd/prototype.go):     *)
(* name resolution (fundUniquePrototype), parameter binding                *)
(* (bindPrototypeFlags, getParameters), template expansion                 *)
(* (expandPrototype) and the describe / search / use command handlers.     *)
(*                                                                         *)
(* Strings are sequences of one-character strings, so that suffix and      *)
(* substring tests and quoting are computed, not assumed.                  *)
(***************************************************************************)
EXTENDS Integers, Sequences, FiniteSets, TLC

VARIABLES
    pc,          \* position of the running command handler
    extProtos,   \* the catalog returned by manager.GetAllPrototypes()
    rawArgs,     \* positional command-line arguments
    proto,       \* the specification a bind / expand works on
    supplied,    \* flags given on the command line: name -> raw value
    flags,       \* the pflag.FlagSet: defined flag name -> current value
    templateType,
    componentName,
    params,      \* the bound parameter map handed to expandPrototype
    calls,       \* evaluator invocations made so far
    result       \* what the handler / function returned

vars == <<pc, extProtos, rawArgs, proto, supplied, flags, templateType,
          componentName, params, calls, result>>

----------------------------------------------------------------------------
(* Bounds of the model.                                                    *)

MaxCatalog == 3
MaxQueryLen == 2
MaxRequired == 2
MaxOptional == 1
MaxBody == 2
MaxArgs == 4

----------------------------------------------------------------------------
(* Strings.                                                                *)

\* strings.HasSuffix(s, q)
HasSuffix(s, q) ==
    /\ Len(q) <= Len(s)
    /\ SubSeq(s, Len(s) - Len(q) + 1, Len(s)) = q

\* strings.Contains(s, q)
Contains(s, q) ==
    \E i \in 1..(Len(s) + 1) :
        /\ i + Len(q) - 1 <= Len(s)
        /\ SubSeq(s, i, i + Len(q) - 1) = q

\* All sequences over S of length lo..hi.
SeqsOf(S, lo, hi) == UNION {[1..n -> S] : n \in lo..hi}

Range(s) == {s[i] : i \in DOMAIN s}

NoDuplicates(s) == \A i, j \in DOMAIN s : s[i] = s[j] => i = j

None == [kind |-> "None"]

----------------------------------------------------------------------------
(* The catalog index (package prototype).                                  *)

\* prototype.NewIndex(protos): the index holds the specifications it is
\* built from, in insertion order.
NewIndex(protos) == protos

\* index.SearchNames(query, Suffix)
SearchSuffix(index, query) ==
    SelectSeq(index, LAMBDA p : HasSuffix(p.Name, query))

\* index.SearchNames(query, Substring)
SearchSubstring(index, query) ==
    SelectSeq(index, LAMBDA p : Contains(p.Name, query))

----------------------------------------------------------------------------
(* Name resolution.                                                        *)

\* A specNames that prepends each name instead of appending it.
specNamesPrepending(protos) ==
    [i \in DOMAIN protos |-> protos[Len(protos) + 1 - i].Name]

\* specNames: the names of the given specifications, in the given order.
specNames(protos) == [i \in DOMAIN protos |-> protos[i].Name]

\* A fundUniquePrototype that requires the query to be unique among the
\* substring matches as well.
fundUniquePrototypeSubstringUnique(query, protos) ==
    LET index == NewIndex(protos)
        suffixProtos == SearchSuffix(index, query)
        substrProtos == SearchSubstring(index, query)
    IN  IF Len(suffixProtos) = 1 /\ Len(substrProtos) = 1
        THEN [kind |-> "Success", proto |-> suffixProtos[1]]
        ELSE IF Len(suffixProtos) >= 1
        THEN [kind |-> "AmbiguousMatch", query |-> query,
              names |-> specNames(substrProtos)]
        ELSE IF Len(substrProtos) = 0
        THEN [kind |-> "NoMatch", query |-> query]
        ELSE [kind |-> "NoExactMatch", query |-> query,
              names |-> specNames(substrProtos)]

\* A fundUniquePrototype that selects a single substring match.
fundUniquePrototypeAutoSelect(query, protos) ==
    LET index == NewIndex(protos)
        suffixProtos == SearchSuffix(index, query)
        substrProtos == SearchSubstring(index, query)
    IN  IF Len(suffixProtos) = 1
        THEN [kind |-> "Success", proto |-> suffixProtos[1]]
        ELSE IF Len(suffixProtos) > 1
        THEN [kind |-> "AmbiguousMatch", query |-> query,
              names |-> specNames(suffixProtos)]
        ELSE IF Len(substrProtos) = 1
        THEN [kind |-> "Success", proto |-> substrProtos[1]]
        ELSE IF Len(substrProtos) = 0
        THEN [kind |-> "NoMatch", query |-> query]
        ELSE [kind |-> "NoExactMatch", query |-> query,
              names |-> specNames(substrProtos)]

\* fundUniquePrototype(query, extProtos)
fundUniquePrototype(query, protos) ==
    LET index == NewIndex(protos)
        suffixProtos == SearchSuffix(index, query)
    IN  IF Len(suffixProtos) = 1
        THEN [kind |-> "Success", proto |-> suffixProtos[1]]
        ELSE IF Len(suffixProtos) > 1
        THEN [kind |-> "AmbiguousMatch", query |-> query,
              names |-> specNames(suffixProtos)]
        ELSE LET substrProtos == SearchSubstring(index, query)
             IN  IF Len(substrProtos) = 0
                 THEN [kind |-> "NoMatch", query |-> query]
                 ELSE [kind |-> "NoExactMatch", query |-> query,
                       names |-> specNames(substrProtos)]

----------------------------------------------------------------------------
(* Parameter schemas and quoting (package prototype).                      *)

String == "string"
Number == "number"

Digits == {"0", "8"}

\* strconv.ParseFloat succeeds: a non-empty string of digits.
IsNumber(v) == v # <<>> /\ \A i \in DOMAIN v : v[i] \in Digits

\* ParamSchema.Quote(value): a string parameter is wrapped in double quotes;
\* a number parameter is kept as written and rejected when it is no number.
Quote(param, val) ==
    IF param.Type = Number
    THEN IF IsNumber(val)
         THEN [ok |-> TRUE, value |-> val]
         ELSE [ok |-> FALSE, value |-> <<>>]
    ELSE [ok |-> TRUE, value |-> <<"\"">> \o val \o <<"\"">>]

\* proto.RequiredParams() / proto.OptionalParams()
RequiredParams(p) == p.Required
OptionalParams(p) == p.Optional

ParamNamesOf(p) ==
    {RequiredParams(p)[i].Name : i \in DOMAIN RequiredParams(p)}
        \cup {OptionalParams(p)[i].Name : i \in DOMAIN OptionalParams(p)}

AllParams(p) ==
    [i \in DOMAIN RequiredParams(p) |-> RequiredParams(p)[i].Name]
        \o [i \in DOMAIN OptionalParams(p) |-> OptionalParams(p)[i].Name]

EmptyMap == [n \in {} |-> <<>>]

----------------------------------------------------------------------------
(* Flag binding.                                                           *)

\* FlagSet.String(name, value, usage): defines a flag with a default value.
\* pflag panics when a flag of that name is already defined
\* (FlagSet.AddFlag: "flag redefined").
DefineFlag(fs, name, value) ==
    IF fs.panic \/ name \in DOMAIN fs.flags
    THEN [panic |-> TRUE, flags |-> fs.flags]
    ELSE [panic |-> FALSE, flags |-> (name :> value) @@ fs.flags]

RECURSIVE DefineRequired(_, _)
DefineRequired(fs, ps) ==
    IF ps = <<>> THEN fs
    ELSE DefineRequired(DefineFlag(fs, Head(ps).Name, <<>>), Tail(ps))

RECURSIVE DefineOptional(_, _)
DefineOptional(fs, ps) ==
    IF ps = <<>> THEN fs
    ELSE DefineOptional(DefineFlag(fs, Head(ps).Name, Head(ps).Default), Tail(ps))

\* bindPrototypeFlags(cmd, proto): one flag per required parameter, default "",
\* then one per optional parameter, default *param.Default.
bindPrototypeFlags(p) ==
    DefineOptional(
        DefineRequired([panic |-> FALSE, flags |-> EmptyMap], RequiredParams(p)),
        OptionalParams(p))

\* cmd.ParseFlags(rawArgs): every flag given on the command line must be
\* defined; a given flag takes the given value, the others keep their default.
ParseFlags(fs, given) ==
    IF DOMAIN given \subseteq DOMAIN fs
    THEN [ok |-> TRUE,
          flags |-> [n \in DOMAIN fs |-> IF n \in DOMAIN given THEN given[n] ELSE fs[n]]]
    ELSE [ok |-> FALSE, flags |-> fs]

----------------------------------------------------------------------------
(* getParameters.                                                          *)

BindState == [values |-> EmptyMap, missing |-> <<>>, err |-> None]

\* One iteration of the loop over proto.RequiredParams().
RequiredStep(st, param, fs, name) ==
    IF st.err # None THEN st
    ELSE IF param.Name \notin DOMAIN fs
    THEN [st EXCEPT !.err = [kind |-> "FlagNotDefined", name |-> param.Name]]
    ELSE LET val == fs[param.Name]
             missing == IF val = <<>> THEN Append(st.missing, param.Name)
                        ELSE st.missing
             quoted == Quote(param, val)
         IN  IF val # <<>> /\ param.Name \in DOMAIN st.values
             THEN [st EXCEPT !.err = [kind |-> "DuplicateParameter",
                                      proto |-> name, name |-> param.Name]]
             ELSE IF ~quoted.ok
             THEN [st EXCEPT !.missing = missing,
                             !.err = [kind |-> "InvalidParameterValue",
                                      name |-> param.Name]]
             ELSE [st EXCEPT !.missing = missing,
                             !.values = (param.Name :> quoted.value) @@ st.values]

\* An OptionalStep that inserts the value it read without quoting it.
OptionalStepUnquoted(st, param, fs, name) ==
    IF st.err # None THEN st
    ELSE IF param.Name \notin DOMAIN fs
    THEN [st EXCEPT !.err = [kind |-> "FlagNotDefined", name |-> param.Name]]
    ELSE IF param.Name \in DOMAIN st.values
    THEN [st EXCEPT !.err = [kind |-> "DuplicateParameter",
                             proto |-> name, name |-> param.Name]]
    ELSE [st EXCEPT !.values = (param.Name :> fs[param.Name]) @@ st.values]

\* One iteration of the loop over proto.OptionalParams().
OptionalStep(st, param, fs, name) ==
    IF st.err # None THEN st
    ELSE IF param.Name \notin DOMAIN fs
    THEN [st EXCEPT !.err = [kind |-> "FlagNotDefined", name |-> param.Name]]
    ELSE LET val == fs[param.Name]
             quoted == Quote(param, val)
         IN  IF param.Name \in DOMAIN st.values
             THEN [st EXCEPT !.err = [kind |-> "DuplicateParameter",
                                      proto |-> name, name |-> param.Name]]
             ELSE IF ~quoted.ok
             THEN [st EXCEPT !.err = [kind |-> "InvalidParameterValue",
                                      name |-> param.Name]]
             ELSE [st EXCEPT !.values = (param.Name :> quoted.value) @@ st.values]

RECURSIVE RequiredLoop(_, _, _, _)
RequiredLoop(st, ps, fs, name) ==
    IF ps = <<>> THEN st
    ELSE RequiredLoop(RequiredStep(st, Head(ps), fs, name), Tail(ps), fs, name)

RECURSIVE OptionalLoop(_, _, _, _)
OptionalLoop(st, ps, fs, name) ==
    IF ps = <<>> THEN st
    ELSE OptionalLoop(OptionalStep(st, Head(ps), fs, name), Tail(ps), fs, name)

\* A getParameters that returns after the required parameters.
getParametersRequiredOnly(p, fs) ==
    LET reqd == RequiredLoop(BindState, RequiredParams(p), fs, p.Name)
    IN  IF reqd.err # None THEN reqd.err
        ELSE IF Len(reqd.missing) > 0
        THEN [kind |-> "MissingRequiredParameters", proto |-> p.Name,
              missing |-> reqd.missing]
        ELSE [kind |-> "Success", values |-> reqd.values]

\* getParameters(proto, flags)
getParameters(p, fs) ==
    LET reqd == RequiredLoop(BindState, RequiredParams(p), fs, p.Name)
    IN  IF reqd.err # None THEN reqd.err
        ELSE IF Len(reqd.missing) > 0
        THEN [kind |-> "MissingRequiredParameters", proto |-> p.Name,
              missing |-> reqd.missing]
        ELSE LET opt == OptionalLoop(reqd, OptionalParams(p), fs, p.Name)
             IN  IF opt.err # None THEN opt.err
                 ELSE [kind |-> "Success", values |-> opt.values]

----------------------------------------------------------------------------
(* Template expansion.                                                     *)

Jsonnet == "jsonnet"
YAML == "yaml"
JSON == "json"
TemplateTypes == {Jsonnet, YAML, JSON}

TokJsonnet == <<"j", "s", "o", "n", "n", "e", "t">>
TokYAML == <<"y", "a", "m", "l">>
TokJSON == <<"j", "s", "o", "n">>

\* prototype.ParseTemplateType(t)
ParseTemplateType(t) ==
    IF t = TokYAML THEN [ok |-> TRUE, type |-> YAML]
    ELSE IF t = TokJSON THEN [ok |-> TRUE, type |-> JSON]
    ELSE IF t = TokJsonnet THEN [ok |-> TRUE, type |-> Jsonnet]
    ELSE [ok |-> FALSE, type |-> ""]

\* proto.Template.Body(templateType): the lines of the body of that kind, or
\* a failure when the specification has none.
Body(p, t) ==
    IF t \in DOMAIN p.Bodies /\ p.Bodies[t] # <<>>
    THEN [ok |-> TRUE, template |-> p.Bodies[t]]
    ELSE [ok |-> FALSE, template |-> <<>>]

Letters == {"a", "c", "d", "e", "g", "j", "l", "m", "n", "o", "p", "s", "t",
            "x", "y", "_"}

\* utils.IsASCIIIdentifier(s)
IsASCIIIdentifier(s) ==
    /\ s # <<>>
    /\ s[1] \in Letters
    /\ \A i \in DOMAIN s : s[i] \in Letters \cup Digits

\* strings.Join(lines, "\n")
RECURSIVE Join(_)
Join(lines) ==
    IF lines = <<>> THEN <<>>
    ELSE IF Len(lines) = 1 THEN <<lines[1]>>
    ELSE <<lines[1], "\n">> \o Join(Tail(lines))

\* The line expandPrototype puts before a Jsonnet body.
Prelude(name) ==
    IF IsASCIIIdentifier(name)
    THEN <<"local params = std.extVar(ParamsExtCodeKey).", "components.", name, ";">>
    ELSE <<"local params = std.extVar(ParamsExtCodeKey).", "components[\"", name,
           "\"]", ";">>

\* An expandPrototype that sends every kind but YAML to the Jsonnet evaluator.
expandPrototypeJsonnetUnlessYAML(p, t, ps, name, jsonnetOut, snippetOut) ==
    LET body == Body(p, t)
    IN  IF ~body.ok
        THEN [result |-> [kind |-> "UnsupportedRenderingKind", type |-> t],
              calls |-> <<>>]
        ELSE IF t # YAML
        THEN [result |-> jsonnetOut,
              calls |-> <<[evaluator |-> "jsonnet.Parse", name |-> name,
                           text |-> Join(<<Prelude(name)>> \o body.template)]>>]
        ELSE [result |-> snippetOut,
              calls |-> <<[evaluator |-> "snippet.Evaluate", params |-> ps,
                           text |-> Join(body.template)]>>]

\* expandPrototype(proto, templateType, params, componentName). The two
\* evaluators are outside this file: jsonnetOut and snippetOut are what
\* jsonnet.Parse and snippet.Parse(..).Evaluate return when they are called.
expandPrototype(p, t, ps, name, jsonnetOut, snippetOut) ==
    LET body == Body(p, t)
    IN  IF ~body.ok
        THEN [result |-> [kind |-> "UnsupportedRenderingKind", type |-> t],
              calls |-> <<>>]
        ELSE IF t = Jsonnet
        THEN [result |-> jsonnetOut,
              calls |-> <<[evaluator |-> "jsonnet.Parse", name |-> name,
                           text |-> Join(<<Prelude(name)>> \o body.template)]>>]
        ELSE [result |-> snippetOut,
              calls |-> <<[evaluator |-> "snippet.Evaluate", params |-> ps,
                           text |-> Join(body.template)]>>]

----------------------------------------------------------------------------
(* The inputs the model draws from.                                        *)

MkSpec(name, required, optional, bodies) ==
    [Name |-> name, Required |-> required, Optional |-> optional,
     Bodies |-> bodies]

NoBodies == [t \in TemplateTypes |-> <<>>]

Names == {<<"a">>, <<"b", "a">>, <<"a", "b">>, <<"b", "b">>,
          <<"a", "b", "a">>, <<"b", "a", "b">>}

Queries == SeqsOf({"a", "b"}, 0, MaxQueryLen)

\* Catalogs: specifications with pairwise distinct names (the loader keys them
\* by name), in any order.
Catalogs ==
    {[i \in DOMAIN ns |-> MkSpec(ns[i], <<>>, <<>>, NoBodies)] :
        ns \in {c \in SeqsOf(Names, 0, MaxCatalog) : NoDuplicates(c)}}

ArgLists == {<<>>} \cup {<<q>> : q \in Queries} \cup {<<q, q>> : q \in Queries}

ParamNames == {"name", "image", "port"}
RawValues == {<<>>, <<"x">>, <<"8">>}
Defaults == {<<"x">>, <<"8">>}

RequiredSchemas == [Name : ParamNames, Type : {String, Number}]
OptionalSchemas == [Name : ParamNames, Type : {String, Number}, Default : Defaults]

BindProtos ==
    {MkSpec(<<"a">>, r, o, NoBodies) :
        r \in SeqsOf(RequiredSchemas, 0, MaxRequired),
        o \in SeqsOf(OptionalSchemas, 0, MaxOptional)}

\* What the command line gives: any subset of the names, each with a value.
SuppliedSets == UNION {[D -> RawValues] : D \in SUBSET ParamNames}

BodyTexts == SeqsOf({"line"}, 0, MaxBody)
ExpandProtos ==
    {MkSpec(<<"a">>, <<>>, <<>>, b) : b \in [TemplateTypes -> BodyTexts]}

TokIdent == <<"n", "g", "x">>
TokNotIdent == <<"m", "-", "c">>
ComponentNames == {TokIdent, TokNotIdent}

BoundSets == {EmptyMap, ("name" :> <<"\"", "x", "\"">>)}

JsonnetOutcomes == {[kind |-> "Text", text |-> "jsonnet output"],
                    [kind |-> "EvalError", by |-> "jsonnet"]}
SnippetOutcomes == {[kind |-> "Text", text |-> "snippet output"],
                    [kind |-> "EvalError", by |-> "snippet"]}

AllBodies == [t \in TemplateTypes |-> <<"line">>]
JsonnetOnly == [t \in TemplateTypes |-> IF t = Jsonnet THEN <<"line">> ELSE <<>>]
TokProto == <<"d", "p">>
UseCatalogs ==
    {<<MkSpec(TokProto, <<>>,
              <<[Name |-> "port", Type |-> Number, Default |-> <<"8">>]>>,
              AllBodies)>>,
     <<MkSpec(TokProto, <<[Name |-> "name", Type |-> String]>>, <<>>,
              JsonnetOnly)>>}
TokHelp == <<"-", "h">>
UseTokens == {TokProto, TokYAML, TokJsonnet, TokIdent, TokNotIdent}
UseArgLists == SeqsOf(UseTokens, 0, MaxArgs) \cup {<<TokHelp>>}
UseSupplied == {EmptyMap, ("name" :> <<"x">>)}

----------------------------------------------------------------------------
(* Command handlers.                                                       *)

Usage(cmd) == [kind |-> "UsageError", cmd |-> cmd]

\* prototypeDescribeCmd.RunE
prototypeDescribe(args, protos) ==
    IF Len(args) # 1 THEN Usage("describe")
    ELSE LET found == fundUniquePrototype(args[1], protos)
         IN  IF found.kind # "Success" THEN found
             ELSE [kind |-> "Described", proto |-> found.proto]

\* prototypeSearchCmd.RunE: the index it searches is built from an empty list.
prototypeSearch(args, protos) ==
    IF Len(args) # 1 THEN Usage("search")
    ELSE LET index == NewIndex(<<>>)
             found == SearchSubstring(index, args[1])
         IN  IF Len(found) = 0 THEN [kind |-> "NoResults", query |-> args[1]]
             ELSE [kind |-> "Found", protos |-> found]

\* prototypeUseCmd.RunE: the component name and the template type taken from
\* the positional arguments.
useArgs(args) ==
    IF Len(args) = 1 THEN [ok |-> FALSE, err |-> [kind |-> "MissingComponentName"]]
    ELSE IF Len(args) = 2
    THEN [ok |-> TRUE, componentName |-> args[2], templateType |-> Jsonnet]
    ELSE IF Len(args) = 3
    THEN LET parsed == ParseTemplateType(args[2])
         IN  IF parsed.ok
             THEN [ok |-> TRUE, componentName |-> args[2],
                   templateType |-> parsed.type]
             ELSE [ok |-> FALSE,
                   err |-> [kind |-> "UnrecognizedTemplateType", given |-> args[2]]]
    ELSE [ok |-> FALSE, err |-> [kind |-> "TooManyArguments"]]

\* prototypePreviewCmd.RunE: the template type taken from the positional
\* arguments; the component name is always "preview".
TokPreview == <<"p", "r", "e", "v", "i", "e", "w">>
previewArgs(args) ==
    IF Len(args) = 1
    THEN [ok |-> TRUE, componentName |-> TokPreview, templateType |-> Jsonnet]
    ELSE IF Len(args) = 2
    THEN LET parsed == ParseTemplateType(args[2])
         IN  IF parsed.ok
             THEN [ok |-> TRUE, componentName |-> TokPreview,
                   templateType |-> parsed.type]
             ELSE [ok |-> FALSE,
                   err |-> [kind |-> "UnrecognizedTemplateType", given |-> args[2]]]
    ELSE [ok |-> FALSE, err |-> [kind |-> "IncorrectNumberOfArguments"]]

Stopped(r) ==
    [result |-> r, calls |-> <<>>, componentName |-> <<>>, templateType |-> "",
     params |-> EmptyMap]

\* manager.CreateComponent(componentName, text, params, templateType)
CreateComponent(name, text, ps, t) ==
    [kind |-> "CreateComponent", componentName |-> name, text |-> text,
     params |-> ps, templateType |-> t]

\* fmt.Println(text)
Println(text) == [kind |-> "Printed", text |-> text]

\* The part prototype use and prototype preview share: resolve, bind the
\* flags, parse them, read the positional arguments, bind the parameters and
\* expand; the two commands differ in how they read the positional arguments
\* and in what they do with the text.
resolveAndExpand(cmd, args, protos, given, jsonnetOut, snippetOut) ==
    LET found == fundUniquePrototype(args[1], protos)
        fs == bindPrototypeFlags(found.proto)
        parsed == ParseFlags(fs.flags, given)
        pos == IF cmd = "use" THEN useArgs(args) ELSE previewArgs(args)
        bound == getParameters(found.proto, parsed.flags)
        out == expandPrototype(found.proto, pos.templateType, bound.values,
                               pos.componentName, jsonnetOut, snippetOut)
    IN  IF found.kind # "Success" THEN Stopped(found)
        ELSE IF fs.panic THEN Stopped([kind |-> "Panic"])
        ELSE IF ~parsed.ok THEN Stopped([kind |-> "UnknownFlag"])
        ELSE IF ~pos.ok THEN Stopped(pos.err)
        ELSE IF bound.kind # "Success"
        THEN [Stopped(bound) EXCEPT !.componentName = pos.componentName,
                                    !.templateType = pos.templateType]
        ELSE [result |-> IF out.result.kind # "Text" THEN out.result
                         ELSE IF cmd = "use"
                         THEN CreateComponent(pos.componentName, out.result.text,
                                              bound.values, pos.templateType)
                         ELSE Println(out.result.text),
              calls |-> out.calls,
              componentName |-> pos.componentName,
              templateType |-> pos.templateType,
              params |-> bound.values]

\* prototypeUseCmd.RunE (generateCmd runs the same function)
prototypeUse(args, protos, given, jsonnetOut, snippetOut) ==
    IF args = <<TokHelp>> THEN Stopped([kind |-> "Help"])
    ELSE IF Len(args) < 1 THEN Stopped(Usage("use"))
    ELSE resolveAndExpand("use", args, protos, given, jsonnetOut, snippetOut)

\* prototypePreviewCmd.RunE
prototypePreview(args, protos, given, jsonnetOut, snippetOut) ==
    IF Len(args) < 1 THEN Stopped(Usage("preview"))
    ELSE resolveAndExpand("preview", args, protos, given, jsonnetOut, snippetOut)

----------------------------------------------------------------------------
(* Specification Spec: prototype describe and prototype search over a      *)
(* loaded catalog.                                                         *)

Idle ==
    /\ proto = None
    /\ supplied = EmptyMap
    /\ flags = EmptyMap
    /\ templateType = ""
    /\ componentName = <<>>
    /\ params = EmptyMap
    /\ calls = <<>>
    /\ result = None

Init ==
    /\ pc = "start"
    /\ extProtos \in Catalogs
    /\ rawArgs \in ArgLists
    /\ Idle

PrototypeDescribe ==
    /\ pc = "start"
    /\ result' = prototypeDescribe(rawArgs, extProtos)
    /\ pc' = "described"
    /\ UNCHANGED <<extProtos, rawArgs, proto, supplied, flags, templateType,
                   componentName, params, calls>>

PrototypeSearch ==
    /\ pc = "start"
    /\ result' = prototypeSearch(rawArgs, extProtos)
    /\ pc' = "searched"
    /\ UNCHANGED <<extProtos, rawArgs, proto, supplied, flags, templateType,
                   componentName, params, calls>>

Next == PrototypeDescribe \/ PrototypeSearch

Spec == Init /\ [][Next]_vars

----------------------------------------------------------------------------
(* Specification SpecBind: the parameter binding of prototype use and      *)
(* prototype preview, for a resolved specification.                        *)

InitBind ==
    /\ pc = "bindFlags"
    /\ proto \in BindProtos
    /\ supplied \in SuppliedSets
    /\ extProtos = <<>>
    /\ rawArgs = <<>>
    /\ flags = EmptyMap
    /\ templateType = ""
    /\ componentName = <<>>
    /\ params = EmptyMap
    /\ calls = <<>>
    /\ result = None

BindPrototypeFlags ==
    /\ pc = "bindFlags"
    /\ LET fs == bindPrototypeFlags(proto)
       IN  IF fs.panic
           THEN /\ pc' = "done"
                /\ result' = [kind |-> "Panic"]
                /\ flags' = flags
           ELSE /\ pc' = "parseFlags"
                /\ result' = result
                /\ flags' = fs.flags
    /\ UNCHANGED <<extProtos, rawArgs, proto, supplied, templateType,
                   componentName, params, calls>>

ParseFlagsStep ==
    /\ pc = "parseFlags"
    /\ LET parsed == ParseFlags(flags, supplied)
       IN  IF parsed.ok
           THEN /\ pc' = "getParameters"
                /\ result' = result
                /\ flags' = parsed.flags
           ELSE /\ pc' = "done"
                /\ result' = [kind |-> "UnknownFlag"]
                /\ flags' = flags
    /\ UNCHANGED <<extProtos, rawArgs, proto, supplied, templateType,
                   componentName, params, calls>>

GetParameters ==
    /\ pc = "getParameters"
    /\ result' = getParameters(proto, flags)
    /\ params' = IF result'.kind = "Success" THEN result'.values ELSE params
    /\ pc' = "bound"
    /\ UNCHANGED <<extProtos, rawArgs, proto, supplied, flags, templateType,
                   componentName, calls>>

NextBind == BindPrototypeFlags \/ ParseFlagsStep \/ GetParameters

SpecBind == InitBind /\ [][NextBind]_vars

----------------------------------------------------------------------------
(* Specification SpecExpand: expandPrototype on a resolved specification.  *)

InitExpand ==
    /\ pc = "expand"
    /\ proto \in ExpandProtos
    /\ templateType \in TemplateTypes
    /\ componentName \in ComponentNames
    /\ params \in BoundSets
    /\ extProtos = <<>>
    /\ rawArgs = <<>>
    /\ supplied = EmptyMap
    /\ flags = EmptyMap
    /\ calls = <<>>
    /\ result = None

ExpandPrototype ==
    /\ pc = "expand"
    /\ \E jsonnetOut \in JsonnetOutcomes, snippetOut \in SnippetOutcomes :
          LET out == expandPrototype(proto, templateType, params, componentName,
                                     jsonnetOut, snippetOut)
          IN  /\ result' = out.result
              /\ calls' = out.calls
    /\ pc' = "expanded"
    /\ UNCHANGED <<extProtos, rawArgs, proto, supplied, flags, templateType,
                   componentName, params>>

NextExpand == ExpandPrototype

SpecExpand == InitExpand /\ [][NextExpand]_vars

----------------------------------------------------------------------------
(* Specification SpecUse: prototype use (and generate) and prototype       *)
(* preview, from the command line to the component.                        *)

InitUse ==
    /\ pc = "start"
    /\ extProtos \in UseCatalogs
    /\ rawArgs \in UseArgLists
    /\ supplied \in UseSupplied
    /\ proto = None
    /\ flags = EmptyMap
    /\ templateType = ""
    /\ componentName = <<>>
    /\ params = EmptyMap
    /\ calls = <<>>
    /\ result = None

Ran(out, at) ==
    /\ result' = out.result
    /\ calls' = out.calls
    /\ componentName' = out.componentName
    /\ templateType' = out.templateType
    /\ params' = out.params
    /\ pc' = at
    /\ UNCHANGED <<extProtos, rawArgs, proto, supplied, flags>>

PrototypeUse ==
    /\ pc = "start"
    /\ \E jsonnetOut \in JsonnetOutcomes, snippetOut \in SnippetOutcomes :
          Ran(prototypeUse(rawArgs, extProtos, supplied, jsonnetOut, snippetOut),
              "used")

PrototypePreview ==
    /\ pc = "start"
    /\ \E jsonnetOut \in JsonnetOutcomes, snippetOut \in SnippetOutcomes :
          Ran(prototypePreview(rawArgs, extProtos, supplied, jsonnetOut, snippetOut),
              "previewed")

NextUse == PrototypeUse \/ PrototypePreview

SpecUse == InitUse /\ [][NextUse]_vars

----------------------------------------------------------------------------
(* Claims about name resolution, checked under Spec.                       *)

Query == rawArgs[1]
Resolved == pc = "described" /\ Len(rawArgs) = 1
SuffixHits == {i \in DOMAIN extProtos : HasSuffix(extProtos[i].Name, Query)}
SubstringHits == {i \in DOMAIN extProtos : Contains(extProtos[i].Name, Query)}
PositionOf(n) == CHOOSE i \in DOMAIN extProtos : extProtos[i].Name = n

\* names lists exactly the catalog names at the positions in hits, each once,
\* in catalog order.
ListsInCatalogOrder(names, hits) ==
    /\ Len(names) = Cardinality(hits)
    /\ Range(names) = {extProtos[i].Name : i \in hits}
    /\ \A i, j \in DOMAIN names : i < j => PositionOf(names[i]) < PositionOf(names[j])

\* C1: when exactly one catalog name ends with the query, resolution returns
\* that specification, whatever other names merely contain the query.
C1_UniqueSuffixResolves ==
    (Resolved /\ Cardinality(SuffixHits) = 1) =>
        /\ result.kind = "Described"
        /\ \A i \in SuffixHits : result.proto = extProtos[i]

C1_Witness ==
    /\ Resolved
    /\ Cardinality(SuffixHits) = 1
    /\ Cardinality(SubstringHits) > 1
    /\ result.kind = "Described"

\* C2: when two or more catalog names end with the query, resolution fails
\* with AmbiguousMatch listing exactly those names in catalog order; names that
\* only contain the query are not listed.
C2_AmbiguousListsSuffixHits ==
    (Resolved /\ Cardinality(SuffixHits) >= 2) =>
        /\ result.kind = "AmbiguousMatch"
        /\ ListsInCatalogOrder(result.names, SuffixHits)

C2_Witness ==
    /\ Resolved
    /\ Cardinality(SuffixHits) = 2
    /\ SubstringHits # SuffixHits
    /\ result.kind = "AmbiguousMatch"
    /\ Len(result.names) = 2

\* C3: when no catalog name ends with the query, resolution never succeeds:
\* it fails with NoExactMatch carrying every name that contains the query
\* when there is one, and with NoMatch when there is none.
C3_SubstringNeverSelected ==
    (Resolved /\ SuffixHits = {}) =>
        IF SubstringHits = {}
        THEN result.kind = "NoMatch"
        ELSE /\ result.kind = "NoExactMatch"
             /\ ListsInCatalogOrder(result.names, SubstringHits)

C3_Witness ==
    /\ Resolved
    /\ SuffixHits = {}
    /\ Cardinality(SubstringHits) = 1
    /\ Len(extProtos) > 1
    /\ result.kind = "NoExactMatch"

\* C10: prototype search returns every specification of the loaded catalog
\* whose name contains the query, and fails with NoResults only when there is
\* none.
C10_SearchFindsCatalogEntries ==
    (pc = "searched" /\ Len(rawArgs) = 1) =>
        IF SubstringHits = {}
        THEN result.kind = "NoResults"
        ELSE /\ result.kind = "Found"
             /\ Range(result.protos) = {extProtos[i] : i \in SubstringHits}

----------------------------------------------------------------------------
(* Claims about parameter binding, checked under SpecBind.                 *)

Bound == pc = "bound"
RequiredNames == [i \in DOMAIN proto.Required |-> proto.Required[i].Name]

\* A parameter is absent when the flag set holds the empty string for it:
\* it was not given on the command line, or was given as "".
AbsentRequired == SelectSeq(RequiredNames, LAMBDA n : flags[n] = <<>>)

\* C4: with a non-empty set of required parameters absent, getParameters
\* fails with MissingRequiredParameters listing exactly the absent ones in
\* declaration order, and with no other error in its place.
C4_MissingListsAllAbsent ==
    (Bound /\ AbsentRequired # <<>>) =>
        /\ result.kind = "MissingRequiredParameters"
        /\ result.missing = AbsentRequired

Unsupplied(i) == proto.Optional[i].Name \notin DOMAIN supplied

\* C5 as stated: after a successful bind an optional parameter that was not
\* supplied is bound to its declared default exactly as declared, unquoted.
C5_DefaultBoundAsDeclared ==
    (Bound /\ result.kind = "Success") =>
        \A i \in DOMAIN proto.Optional :
            Unsupplied(i) =>
                result.values[proto.Optional[i].Name] = proto.Optional[i].Default

\* C5 as amended: after a successful bind an optional parameter that was not
\* supplied is bound to the quoted form of its declared default: the default
\* goes through the same quoting step as a supplied value.
C5_DefaultBoundQuoted ==
    (Bound /\ result.kind = "Success") =>
        \A i \in DOMAIN proto.Optional :
            Unsupplied(i) =>
                result.values[proto.Optional[i].Name] =
                    Quote(proto.Optional[i], proto.Optional[i].Default).value

C5_Witness ==
    /\ Bound
    /\ result.kind = "Success"
    /\ \E i \in DOMAIN proto.Optional :
          /\ Unsupplied(i)
          /\ proto.Optional[i].Type = String
          /\ result.values[proto.Optional[i].Name] # proto.Optional[i].Default
    /\ \E n \in DOMAIN supplied : supplied[n] # <<>>

DeclaredParams == Range(proto.Required) \cup Range(proto.Optional)
QuotingSucceeds == \A param \in DeclaredParams : Quote(param, flags[param.Name]).ok

\* C6: for a specification with distinct parameter names, with every
\* required parameter supplied non-empty and quoting succeeding, getParameters
\* returns a map whose keys are exactly the declared parameter names.
C6_KeysAreDeclaredParams ==
    (/\ Bound
     /\ NoDuplicates(AllParams(proto))
     /\ AbsentRequired = <<>>
     /\ QuotingSucceeds) =>
        /\ result.kind = "Success"
        /\ DOMAIN result.values = ParamNamesOf(proto)

C6_Witness ==
    /\ Bound
    /\ Len(proto.Required) = 2
    /\ Len(proto.Optional) = 1
    /\ AbsentRequired = <<>>
    /\ QuotingSucceeds
    /\ result.kind = "Success"

Finished == pc \in {"done", "bound"}
DuplicatedNames ==
    {n \in ParamNamesOf(proto) :
        \/ \E i, j \in DOMAIN proto.Required :
              i # j /\ proto.Required[i].Name = n /\ proto.Required[j].Name = n
        \/ /\ \E i \in DOMAIN proto.Required : proto.Required[i].Name = n
           /\ \E j \in DOMAIN proto.Optional : proto.Optional[j].Name = n}

\* C7: when a parameter name is declared twice (required and optional, or
\* twice required) and that parameter is supplied, binding fails with
\* DuplicateParameter naming it.
C7_DuplicateReported ==
    Finished =>
        \A n \in DuplicatedNames :
            (n \in DOMAIN supplied /\ supplied[n] # <<>>) =>
                /\ result.kind = "DuplicateParameter"
                /\ result.name = n

----------------------------------------------------------------------------
(* Claims about template expansion, checked under SpecExpand.              *)

Expanded == pc = "expanded"
HasBody == proto.Bodies[templateType] # <<>>

\* C8: expandPrototype looks the body up first; without a body for the kind
\* it returns that failure and calls no evaluator; otherwise it calls exactly
\* one evaluator, the Jsonnet one if and only if the kind is Jsonnet and the
\* snippet one (with the bound values) otherwise, and returns what that
\* evaluator returned.
C8_OneEvaluatorByKind ==
    Expanded =>
        IF ~HasBody
        THEN /\ result.kind = "UnsupportedRenderingKind"
             /\ calls = <<>>
        ELSE /\ Len(calls) = 1
             /\ calls[1].evaluator = "jsonnet.Parse" <=> templateType = Jsonnet
             /\ templateType = Jsonnet =>
                   /\ calls[1].name = componentName
                   /\ result \in JsonnetOutcomes
             /\ templateType # Jsonnet =>
                   /\ calls[1].evaluator = "snippet.Evaluate"
                   /\ calls[1].params = params
                   /\ result \in SnippetOutcomes

C8_Witness ==
    /\ Expanded
    /\ templateType = JSON
    /\ HasBody
    /\ proto.Bodies[Jsonnet] # <<>>
    /\ params # EmptyMap
    /\ Len(calls) = 1
    /\ result.kind = "Text"

----------------------------------------------------------------------------
(* Claims about prototype use, checked under SpecUse.                      *)

\* C9: given <prototype-name> <componentName> <type>, prototype use takes the
\* component name from the second argument and the template type from the
\* third: a valid type in third position is accepted for any component name.
C9_TypeIsThirdArgument ==
    (/\ pc = "used"
     /\ Len(rawArgs) = 3
     /\ fundUniquePrototype(rawArgs[1], extProtos).kind = "Success"
     /\ result.kind \notin {"Panic", "UnknownFlag"}
     /\ ParseTemplateType(rawArgs[3]).ok) =>
        /\ result.kind # "UnrecognizedTemplateType"
        /\ componentName = rawArgs[2]
        /\ templateType = ParseTemplateType(rawArgs[3]).type

====
